---- MODULE Spec2Model ----
(***************************************************************************)
(* Model of src/src/main.cpp: the window/context bootstrap (initWindow),   *)
(* the frame loop of main, processInput, framebuffer_size_callback and the *)
(* shader pipeline (processVertexShader, processFragmentShader,            *)
(* processShaderProgram).                                                  *)
(*                                                                         *)
(* The program is single threaded: pc is the statement main is about to    *)
(* execute.  GLFW, glad and the GL driver are external; what they answer   *)
(* (init, window creation, loader, compile and link status, input events)  *)
(* is chosen nondeterministically.                                         *)
(*                                                                         *)
(* Undefined behaviour.  main passes the handle returned by initWindow to  *)
(* GLFW without a null check.  A GLFW call on a null handle is undefined:  *)
(* the model lets it fault or return either answer.  A GL call before the  *)
(* loader resolved the entry points is a call through a null function      *)
(* pointer: the process faults.                                            *)
(***************************************************************************)
EXTENDS Integers, Sequences, FiniteSets, TLC

VARIABLES
    pc,       \* the statement the thread executes next
    window,   \* main's local `window`: "unset", "null" or "w"
    glfw,     \* state of the windowing library and of its one window
    gl,       \* state of the GL context: bindings, objects, viewport
    loc,      \* the locals holding GL names, and the process exit code
    trace,    \* calls and output lines since the current frame began
    frames,   \* number of frames entered (loop bodies begun)
    events,   \* events dispatched by the glfwPollEvents call in progress
    obs       \* observations: counts of draws, swaps, polls, last resize

vars == <<pc, window, glfw, gl, loc, trace, frames, events, obs>>

----------------------------------------------------------------------------
(* Bounds of the model. *)

MaxFrames == 2

MaxEvents == 2

(* Program constants. *)

SCREEN_WIDTH == 800

SCREEN_HEIGHT == 600

(* sizeof(vertices): 9 floats of 4 bytes. *)
VerticesBytes == 9 * 4

(* 3 * sizeof(float), the stride given to glVertexAttribPointer. *)
Stride == 3 * 4

(* Framebuffer sizes the window system may report to the resize callback. *)
Sizes == {<<SCREEN_WIDTH, SCREEN_HEIGHT>>, <<400, 300>>, <<0, 0>>}

(* Exit statuses of a process killed by SIGABRT or SIGSEGV. *)
AbnormalExit == {134, 139}

NotExited == 0 - 1

----------------------------------------------------------------------------
(* Helpers. *)

Call(name) == trace' = Append(trace, name)

Calls(names) == trace' = trace \o names

Count(name, s) == Cardinality({i \in 1..Len(s) : s[i] = name})

Issued(name) == \E i \in 1..Len(trace) : trace[i] = name

(* glfwTerminate: destroys the window and its context, library uninitialised. *)
GlfwTerminated(g) ==
    [g EXCEPT !.inited = FALSE, !.windowExists = FALSE,
              !.contextCurrent = FALSE, !.callbackSet = FALSE,
              !.terminateCalls = @ + 1]

(* The process faults: abnormal termination, no further statement runs. *)
Fault ==
    /\ pc' = "crashed"
    /\ \E code \in AbnormalExit : loc' = [loc EXCEPT !.exitCode = code]

----------------------------------------------------------------------------
Init ==
    /\ pc = "glfwInit"
    /\ window = "unset"
    /\ glfw = [inited |-> FALSE, initFailed |-> FALSE, hints |-> <<>>,
               windowExists |-> FALSE, contextCurrent |-> FALSE,
               callbackSet |-> FALSE, gladLoaded |-> FALSE,
               shouldClose |-> FALSE, escDown |-> FALSE,
               terminateCalls |-> 0]
    /\ gl = [viewport |-> <<0, 0, 0, 0>>, clearColor |-> <<0, 0, 0, 0>>,
             cleared |-> FALSE,
             vaos |-> <<>>, vbos |-> <<>>, shaders |-> <<>>, programs |-> <<>>,
             boundVAO |-> 0, boundVBO |-> 0, currentProgram |-> 0]
    /\ loc = [VAO |-> 0, VBO |-> 0, shaderProgram |-> 0,
              newProgram |-> 0, vertexShader |-> 0, fragmentShader |-> 0,
              shader |-> 0, exitCode |-> NotExited]
    /\ trace = <<>>
    /\ frames = 0
    /\ events = 0
    /\ obs = [numDraw |-> 0, lastDrawCount |-> 0, numSwap |-> 0, numPoll |-> 0,
              lastResize |-> <<>>, escSeen |-> FALSE]

----------------------------------------------------------------------------
(* initWindow *)

(* glfwInit(): the result is discarded. *)
GlfwInit ==
    /\ pc = "glfwInit"
    /\ \E ok \in BOOLEAN :
          glfw' = [glfw EXCEPT !.inited = ok, !.initFailed = ~ok]
    /\ Call("glfwInit")
    /\ pc' = "hints"
    /\ UNCHANGED <<window, gl, loc, frames, events, obs>>

(* The three glfwWindowHint calls; without an initialised library they    *)
(* only raise GLFW_NOT_INITIALIZED.                                       *)
WindowHints ==
    /\ pc = "hints"
    /\ glfw' = [glfw EXCEPT !.hints = IF glfw.inited THEN <<3, 3, "core">> ELSE @]
    /\ Calls(<<"glfwWindowHint", "glfwWindowHint", "glfwWindowHint">>)
    /\ pc' = "create"
    /\ UNCHANGED <<window, gl, loc, frames, events, obs>>

(* glfwCreateWindow: null when the library is not initialised or when the *)
(* requested context cannot be created.                                   *)
CreateWindow ==
    /\ pc = "create"
    /\ \E ok \in BOOLEAN :
          glfw' = [glfw EXCEPT !.windowExists = ok /\ glfw.inited,
                               !.shouldClose = FALSE, !.escDown = FALSE]
    /\ Call("glfwCreateWindow")
    /\ pc' = "check_window"
    /\ UNCHANGED <<window, gl, loc, frames, events, obs>>

(* window == nullptr: log, glfwTerminate, return nullptr to main. *)
CreateFailed ==
    /\ pc = "check_window"
    /\ ~glfw.windowExists
    /\ glfw' = GlfwTerminated(glfw)
    /\ Calls(<<"cout:Failed to create GLFW window", "glfwTerminate">>)
    /\ window' = "null"
    /\ pc' = "loop_head"
    /\ UNCHANGED <<gl, loc, frames, events, obs>>

(* The context becomes current; on first use its viewport is the window. *)
MakeContextCurrent ==
    /\ pc = "check_window"
    /\ glfw.windowExists
    /\ glfw' = [glfw EXCEPT !.contextCurrent = TRUE]
    /\ gl' = [gl EXCEPT !.viewport = <<0, 0, SCREEN_WIDTH, SCREEN_HEIGHT>>]
    /\ Call("glfwMakeContextCurrent")
    /\ pc' = "set_callback"
    /\ UNCHANGED <<window, loc, frames, events, obs>>

SetFramebufferSizeCallback ==
    /\ pc = "set_callback"
    /\ glfw' = [glfw EXCEPT !.callbackSet = TRUE]
    /\ Call("glfwSetFramebufferSizeCallback")
    /\ pc' = "load_gl"
    /\ UNCHANGED <<window, gl, loc, frames, events, obs>>

(* gladLoadGLLoader succeeded: initWindow returns the window. *)
LoadGLOk ==
    /\ pc = "load_gl"
    /\ glfw' = [glfw EXCEPT !.gladLoaded = TRUE]
    /\ Call("gladLoadGLLoader")
    /\ window' = "w"
    /\ pc' = "loop_head"
    /\ UNCHANGED <<gl, loc, frames, events, obs>>

(* Mutant: the loader failure is logged but the window is returned. *)
LoadGLFailedReturnsWindow ==
    /\ pc = "load_gl"
    /\ Calls(<<"gladLoadGLLoader", "cout:Failed to initialize GLAD">>)
    /\ window' = "w"
    /\ pc' = "loop_head"
    /\ UNCHANGED <<glfw, gl, loc, frames, events, obs>>

(* gladLoadGLLoader failed: log and return nullptr; the window stays. *)
LoadGLFailed ==
    /\ pc = "load_gl"
    /\ Calls(<<"gladLoadGLLoader", "cout:Failed to initialize GLAD">>)
    /\ window' = "null"
    /\ pc' = "loop_head"
    /\ UNCHANGED <<glfw, gl, loc, frames, events, obs>>

----------------------------------------------------------------------------
(* main: the render loop *)

(* What glfwWindowShouldClose(window) may return: the close flag of a real *)
(* window; anything for the null handle.                                   *)
WindowShouldClose ==
    IF window = "w" THEN {glfw.shouldClose} ELSE BOOLEAN

(* while (!glfwWindowShouldClose(window)): the only read of the close flag. *)
LoopHead ==
    /\ pc = "loop_head"
    /\ \/ /\ window = "null"
          /\ Call("glfwWindowShouldClose")
          /\ Fault
          /\ UNCHANGED <<window, glfw, gl, frames, events, obs>>
       \/ /\ \E close \in WindowShouldClose : close
          /\ Call("glfwWindowShouldClose")
          /\ pc' = "terminate"
          /\ UNCHANGED <<window, glfw, gl, loc, frames, events, obs>>
       \/ /\ \E close \in WindowShouldClose : ~close
          /\ frames < MaxFrames
          /\ trace' = <<"glfwWindowShouldClose">>
          /\ frames' = frames + 1
          /\ pc' = "input"
          /\ UNCHANGED <<window, glfw, gl, loc, events, obs>>

(* Mutant: processInput leaves the loop at once when Escape is pressed. *)
ProcessInputBreaksOnEscape ==
    /\ pc = "input"
    /\ window = "w"
    /\ IF glfw.escDown
       THEN /\ glfw' = [glfw EXCEPT !.shouldClose = TRUE]
            /\ obs' = [obs EXCEPT !.escSeen = TRUE]
            /\ Calls(<<"glfwGetKey", "glfwSetWindowShouldClose">>)
            /\ pc' = "terminate"
       ELSE /\ Call("glfwGetKey")
            /\ pc' = "clear_color"
            /\ UNCHANGED <<glfw, obs>>
    /\ UNCHANGED <<window, gl, loc, frames, events>>

(* Mutant: processInput passes false to glfwSetWindowShouldClose. *)
ProcessInputClearsFlag ==
    /\ pc = "input"
    /\ window = "w"
    /\ IF glfw.escDown
       THEN /\ glfw' = [glfw EXCEPT !.shouldClose = FALSE]
            /\ obs' = [obs EXCEPT !.escSeen = TRUE]
            /\ Calls(<<"glfwGetKey", "glfwSetWindowShouldClose">>)
       ELSE /\ Call("glfwGetKey")
            /\ UNCHANGED <<glfw, obs>>
    /\ pc' = "clear_color"
    /\ UNCHANGED <<window, gl, loc, frames, events>>

(* processInput(window) on a real window: Escape pressed requests close. *)
ProcessInput ==
    /\ pc = "input"
    /\ window = "w"
    /\ IF glfw.escDown
       THEN /\ glfw' = [glfw EXCEPT !.shouldClose = TRUE]
            /\ obs' = [obs EXCEPT !.escSeen = TRUE]
            /\ Calls(<<"glfwGetKey", "glfwSetWindowShouldClose">>)
       ELSE /\ Call("glfwGetKey")
            /\ UNCHANGED <<glfw, obs>>
    /\ pc' = "clear_color"
    /\ UNCHANGED <<window, gl, loc, frames, events>>

(* processInput(nullptr): glfwGetKey and glfwSetWindowShouldClose on the  *)
(* null handle fault or return; there is no window whose flag it sets.    *)
ProcessInputNull ==
    /\ pc = "input"
    /\ window = "null"
    /\ \/ /\ Call("glfwGetKey")
          /\ Fault
       \/ /\ Call("glfwGetKey")
          /\ pc' = "clear_color"
          /\ UNCHANGED loc
       \/ /\ Calls(<<"glfwGetKey", "glfwSetWindowShouldClose">>)
          /\ Fault
       \/ /\ Calls(<<"glfwGetKey", "glfwSetWindowShouldClose">>)
          /\ pc' = "clear_color"
          /\ UNCHANGED loc
    /\ UNCHANGED <<window, glfw, gl, frames, events, obs>>

(* glClearColor(0.2f, 0.1f, 0.1f, 1.0f), in tenths. *)
ClearColor ==
    /\ pc = "clear_color"
    /\ Call("glClearColor")
    /\ \/ /\ glfw.gladLoaded
          /\ gl' = [gl EXCEPT !.clearColor = <<2, 1, 1, 10>>]
          /\ pc' = "clear"
          /\ UNCHANGED loc
       \/ /\ ~glfw.gladLoaded
          /\ Fault
          /\ UNCHANGED gl
    /\ UNCHANGED <<window, glfw, frames, events, obs>>

(* glClear(GL_COLOR_BUFFER_BIT) *)
Clear ==
    /\ pc = "clear"
    /\ gl' = [gl EXCEPT !.cleared = TRUE]
    /\ Call("glClear")
    /\ pc' = "gen_vao"
    /\ UNCHANGED <<window, glfw, loc, frames, events, obs>>

(* A vertex array object as generated: attribute 0 not configured. *)
NewVAO == [vbo |-> 0, size |-> 0, stride |-> 0, offset |-> 0, enabled |-> FALSE]

(* Mutant: a VAO is generated only when none exists yet. *)
GenVertexArraysOnce ==
    /\ pc = "gen_vao"
    /\ gl' = [gl EXCEPT !.vaos = IF Len(@) = 0 THEN Append(@, NewVAO) ELSE @]
    /\ loc' = [loc EXCEPT !.VAO = 1]
    /\ Call("glGenVertexArrays")
    /\ pc' = "bind_vao"
    /\ UNCHANGED <<window, glfw, frames, events, obs>>

(* unsigned int VAO; glGenVertexArrays(1, &VAO): a fresh name. *)
GenVertexArrays ==
    /\ pc = "gen_vao"
    /\ gl' = [gl EXCEPT !.vaos = Append(@, NewVAO)]
    /\ loc' = [loc EXCEPT !.VAO = Len(gl.vaos) + 1]
    /\ Call("glGenVertexArrays")
    /\ pc' = "bind_vao"
    /\ UNCHANGED <<window, glfw, frames, events, obs>>

(* glBindVertexArray(VAO), before configuration. *)
BindVertexArray ==
    /\ pc = "bind_vao"
    /\ gl' = [gl EXCEPT !.boundVAO = loc.VAO]
    /\ Call("glBindVertexArray")
    /\ pc' = "gen_vbo"
    /\ UNCHANGED <<window, glfw, loc, frames, events, obs>>

(* unsigned int VBO; glGenBuffers(1, &VBO): a fresh name, no data store. *)
GenBuffers ==
    /\ pc = "gen_vbo"
    /\ gl' = [gl EXCEPT !.vbos = Append(@, 0)]
    /\ loc' = [loc EXCEPT !.VBO = Len(gl.vbos) + 1]
    /\ Call("glGenBuffers")
    /\ pc' = "bind_vbo"
    /\ UNCHANGED <<window, glfw, frames, events, obs>>

(* Mutant: the new buffer is never bound to the array-buffer target. *)
BindBufferSkipped ==
    /\ pc = "bind_vbo"
    /\ pc' = "buffer_data"
    /\ UNCHANGED <<window, glfw, gl, loc, trace, frames, events, obs>>

(* glBindBuffer(GL_ARRAY_BUFFER, VBO) *)
BindBuffer ==
    /\ pc = "bind_vbo"
    /\ gl' = [gl EXCEPT !.boundVBO = loc.VBO]
    /\ Call("glBindBuffer")
    /\ pc' = "buffer_data"
    /\ UNCHANGED <<window, glfw, loc, frames, events, obs>>

(* glBufferData(GL_ARRAY_BUFFER, sizeof(vertices), vertices, GL_STATIC_DRAW): *)
(* the store of the buffer bound to the array-buffer target.                 *)
BufferData ==
    /\ pc = "buffer_data"
    /\ gl' = [gl EXCEPT !.vbos = IF gl.boundVBO = 0 THEN @
                                 ELSE [@ EXCEPT ![gl.boundVBO] = VerticesBytes]]
    /\ Call("glBufferData")
    /\ pc' = "attrib_ptr"
    /\ UNCHANGED <<window, glfw, loc, frames, events, obs>>

(* glVertexAttribPointer(0, 3, GL_FLOAT, GL_FALSE, 3 * sizeof(float), 0): *)
(* attribute 0 of the bound VAO captures the bound array buffer.          *)
VertexAttribPointer ==
    /\ pc = "attrib_ptr"
    /\ gl' = [gl EXCEPT !.vaos =
                 IF gl.boundVAO = 0 THEN @
                 ELSE [@ EXCEPT ![gl.boundVAO] =
                          [@ EXCEPT !.vbo = gl.boundVBO, !.size = 3,
                                    !.stride = Stride, !.offset = 0]]]
    /\ Call("glVertexAttribPointer")
    /\ pc' = "enable_attrib"
    /\ UNCHANGED <<window, glfw, loc, frames, events, obs>>

(* glEnableVertexAttribArray(0) *)
EnableVertexAttribArray ==
    /\ pc = "enable_attrib"
    /\ gl' = [gl EXCEPT !.vaos =
                 IF gl.boundVAO = 0 THEN @
                 ELSE [@ EXCEPT ![gl.boundVAO] = [@ EXCEPT !.enabled = TRUE]]]
    /\ Call("glEnableVertexAttribArray")
    /\ pc' = "create_program"
    /\ UNCHANGED <<window, glfw, loc, frames, events, obs>>

----------------------------------------------------------------------------
(* processShaderProgram, processVertexShader, processFragmentShader *)

NewProgram == [attached |-> {}, link |-> "unlinked"]

NewShader(kind) == [kind |-> kind, compile |-> "none", prog |-> 0, deletes |-> 0]

(* shaderProgram = glCreateProgram(), the local of processShaderProgram. *)
CreateProgram ==
    /\ pc = "create_program"
    /\ gl' = [gl EXCEPT !.programs = Append(@, NewProgram)]
    /\ loc' = [loc EXCEPT !.newProgram = Len(gl.programs) + 1]
    /\ Call("glCreateProgram")
    /\ pc' = "vs_create"
    /\ UNCHANGED <<window, glfw, frames, events, obs>>

(* glCreateShader(kind) into the local of the compile function. *)
CreateShader(kind) ==
    /\ gl' = [gl EXCEPT !.shaders = Append(@, NewShader(kind))]
    /\ loc' = [loc EXCEPT !.shader = Len(gl.shaders) + 1]
    /\ Call("glCreateShader")

(* Mutant: the source is installed but glCompileShader is never called. *)
CompileShaderSkipped(ok, diag) ==
    /\ gl' = gl
    /\ Calls(<<"glShaderSource", "glGetShaderiv">>)

(* Mutant: the diagnostic is printed whatever the compile status. *)
CompileShaderAlwaysLogs(ok, diag) ==
    /\ gl' = [gl EXCEPT !.shaders[loc.shader].compile =
                            IF ok THEN "ok" ELSE "failed"]
    /\ Calls(<<"glShaderSource", "glCompileShader", "glGetShaderiv",
               "glGetShaderInfoLog", diag>>)

(* glShaderSource, glCompileShader, glGetShaderiv(GL_COMPILE_STATUS); on   *)
(* failure the info log is fetched and the diagnostic printed to std::cout. *)
CompileShader(ok, diag) ==
    /\ gl' = [gl EXCEPT !.shaders[loc.shader].compile =
                            IF ok THEN "ok" ELSE "failed"]
    /\ Calls(<<"glShaderSource", "glCompileShader", "glGetShaderiv">>
             \o (IF ok THEN <<>> ELSE <<"glGetShaderInfoLog", diag>>))

(* Mutant: the compile function returns 0 when the compile failed. *)
ReturnedShaderOrZero(ok) == IF ok THEN loc.shader ELSE 0

(* The handle the compile function returns, whatever the compile status. *)
ReturnedShader(ok) == loc.shader

VertexShaderCreate ==
    /\ pc = "vs_create"
    /\ CreateShader("vertex")
    /\ pc' = "vs_compile"
    /\ UNCHANGED <<window, glfw, frames, events, obs>>

VertexShaderCompile ==
    /\ pc = "vs_compile"
    /\ \E ok \in BOOLEAN :
          /\ CompileShader(ok, "cout:ERROR::SHADER::VERTEX::COMPILATION_FAILED")
          /\ loc' = [loc EXCEPT !.vertexShader = ReturnedShader(ok)]
    /\ pc' = "fs_create"
    /\ UNCHANGED <<window, glfw, frames, events, obs>>

FragmentShaderCreate ==
    /\ pc = "fs_create"
    /\ CreateShader("fragment")
    /\ pc' = "fs_compile"
    /\ UNCHANGED <<window, glfw, frames, events, obs>>

FragmentShaderCompile ==
    /\ pc = "fs_compile"
    /\ \E ok \in BOOLEAN :
          /\ CompileShader(ok, "cout:ERROR::SHADER::FRAGMENT::COMPILATION_FAILED")
          /\ loc' = [loc EXCEPT !.fragmentShader = ReturnedShader(ok)]
    /\ pc' = "attach_vs"
    /\ UNCHANGED <<window, glfw, frames, events, obs>>

(* glAttachShader(program, shader); a name that is no shader is rejected. *)
Attached(g, program, shader) ==
    IF shader \in 1..Len(g.shaders) /\ program \in 1..Len(g.programs)
    THEN [g EXCEPT !.programs[program].attached = @ \cup {shader},
                   !.shaders[shader].prog = program]
    ELSE g

(* Mutant: the vertex shader is deleted right after it is attached. *)
AttachVertexShaderThenDelete ==
    /\ pc = "attach_vs"
    /\ gl' = [Attached(gl, loc.newProgram, loc.vertexShader)
                 EXCEPT !.shaders[loc.vertexShader].deletes = @ + 1]
    /\ Calls(<<"glAttachShader", "glDeleteShader">>)
    /\ pc' = "attach_fs"
    /\ UNCHANGED <<window, glfw, loc, frames, events, obs>>

AttachVertexShader ==
    /\ pc = "attach_vs"
    /\ gl' = Attached(gl, loc.newProgram, loc.vertexShader)
    /\ Call("glAttachShader")
    /\ pc' = "attach_fs"
    /\ UNCHANGED <<window, glfw, loc, frames, events, obs>>

AttachFragmentShader ==
    /\ pc = "attach_fs"
    /\ gl' = Attached(gl, loc.newProgram, loc.fragmentShader)
    /\ Call("glAttachShader")
    /\ pc' = "link"
    /\ UNCHANGED <<window, glfw, loc, frames, events, obs>>

(* A program can link only if a compiled vertex and a compiled fragment   *)
(* shader are attached.                                                   *)
Linkable(g, program) ==
    /\ \A s \in g.programs[program].attached : g.shaders[s].compile = "ok"
    /\ \E s \in g.programs[program].attached : g.shaders[s].kind = "vertex"
    /\ \E s \in g.programs[program].attached : g.shaders[s].kind = "fragment"

(* glLinkProgram, glGetProgramiv(GL_LINK_STATUS); on failure the info log *)
(* is fetched and the diagnostic printed.  Execution continues.           *)
LinkProgram ==
    /\ pc = "link"
    /\ \E ok \in BOOLEAN :
          LET linked == ok /\ Linkable(gl, loc.newProgram) IN
          /\ gl' = [gl EXCEPT !.programs[loc.newProgram].link =
                                  IF linked THEN "linked" ELSE "failed"]
          /\ Calls(<<"glLinkProgram", "glGetProgramiv">>
                   \o (IF linked THEN <<>>
                       ELSE <<"glGetProgramInfoLog",
                              "cout:ERROR::SHADER::PROGRAM::LINKING_FAILED">>))
    /\ pc' = "delete_vs"
    /\ UNCHANGED <<window, glfw, loc, frames, events, obs>>

(* Mutant: the shader is deleted only when its program linked. *)
DeletedOnlyIfLinked(g, shader) ==
    IF /\ shader \in 1..Len(g.shaders)
       /\ g.shaders[shader].prog \in 1..Len(g.programs)
       /\ g.programs[g.shaders[shader].prog].link = "linked"
    THEN [g EXCEPT !.shaders[shader].deletes = @ + 1]
    ELSE g

(* glDeleteShader(shader); the name 0 is silently ignored. *)
Deleted(g, shader) ==
    IF shader \in 1..Len(g.shaders)
    THEN [g EXCEPT !.shaders[shader].deletes = @ + 1]
    ELSE g

DeleteVertexShader ==
    /\ pc = "delete_vs"
    /\ gl' = Deleted(gl, loc.vertexShader)
    /\ Call("glDeleteShader")
    /\ pc' = "delete_fs"
    /\ UNCHANGED <<window, glfw, loc, frames, events, obs>>

DeleteFragmentShader ==
    /\ pc = "delete_fs"
    /\ gl' = Deleted(gl, loc.fragmentShader)
    /\ Call("glDeleteShader")
    /\ pc' = "return_program"
    /\ UNCHANGED <<window, glfw, loc, frames, events, obs>>

(* return shaderProgram; assigned to main's shaderProgram. *)
ReturnProgram ==
    /\ pc = "return_program"
    /\ loc' = [loc EXCEPT !.shaderProgram = loc.newProgram]
    /\ pc' = "use_program"
    /\ UNCHANGED <<window, glfw, gl, trace, frames, events, obs>>

----------------------------------------------------------------------------
(* main: draw and present *)

(* glUseProgram(shaderProgram): a program that is not linked is rejected  *)
(* (GL_INVALID_OPERATION) and the current program stays.                  *)
UseProgram ==
    /\ pc = "use_program"
    /\ gl' = [gl EXCEPT !.currentProgram =
                 IF /\ loc.shaderProgram \in 1..Len(gl.programs)
                    /\ gl.programs[loc.shaderProgram].link = "linked"
                 THEN loc.shaderProgram ELSE @]
    /\ Call("glUseProgram")
    /\ pc' = "bind_vao_draw"
    /\ UNCHANGED <<window, glfw, loc, frames, events, obs>>

(* Mutant: the VAO is unbound (name 0) before the draw. *)
BindVertexArrayForDrawUnbinds ==
    /\ pc = "bind_vao_draw"
    /\ gl' = [gl EXCEPT !.boundVAO = 0]
    /\ Call("glBindVertexArray")
    /\ pc' = "draw"
    /\ UNCHANGED <<window, glfw, loc, frames, events, obs>>

(* glBindVertexArray(VAO), before the draw. *)
BindVertexArrayForDraw ==
    /\ pc = "bind_vao_draw"
    /\ gl' = [gl EXCEPT !.boundVAO = loc.VAO]
    /\ Call("glBindVertexArray")
    /\ pc' = "draw"
    /\ UNCHANGED <<window, glfw, loc, frames, events, obs>>

(* glDrawArrays(GL_TRIANGLES, 0, 3) *)
DrawArrays ==
    /\ pc = "draw"
    /\ obs' = [obs EXCEPT !.numDraw = @ + 1, !.lastDrawCount = 3]
    /\ Call("glDrawArrays")
    /\ pc' = "poll"
    /\ UNCHANGED <<window, glfw, gl, loc, frames, events>>

(* glfwPollEvents(): pending events are dispatched before it returns. *)
PollEvents ==
    /\ pc = "poll"
    /\ obs' = [obs EXCEPT !.numPoll = @ + 1]
    /\ Call("glfwPollEvents")
    /\ events' = 0
    /\ pc' = "polling"
    /\ UNCHANGED <<window, glfw, gl, loc, frames>>

(* Mutant: the callback passes height and width in the wrong order. *)
FramebufferSizeCallbackSwapped(width, height) ==
    /\ gl' = [gl EXCEPT !.viewport = <<0, 0, height, width>>]
    /\ Call("glViewport")

(* framebuffer_size_callback(window, width, height): glViewport only. *)
FramebufferSizeCallback(width, height) ==
    /\ gl' = [gl EXCEPT !.viewport = <<0, 0, width, height>>]
    /\ Call("glViewport")

(* A framebuffer resize is dispatched to the registered callback. *)
DispatchResize ==
    /\ pc = "polling"
    /\ events < MaxEvents
    /\ glfw.callbackSet
    /\ \E size \in Sizes :
          /\ FramebufferSizeCallback(size[1], size[2])
          /\ obs' = [obs EXCEPT !.lastResize = size]
    /\ events' = events + 1
    /\ UNCHANGED <<pc, window, glfw, loc, frames>>

(* The window system asks to close the window: GLFW sets the close flag. *)
DispatchClose ==
    /\ pc = "polling"
    /\ events < MaxEvents
    /\ glfw' = [glfw EXCEPT !.shouldClose = TRUE]
    /\ events' = events + 1
    /\ UNCHANGED <<pc, window, gl, loc, trace, frames, obs>>

(* Escape is pressed or released: GLFW records the key state. *)
DispatchKey ==
    /\ pc = "polling"
    /\ events < MaxEvents
    /\ glfw' = [glfw EXCEPT !.escDown = ~@]
    /\ events' = events + 1
    /\ UNCHANGED <<pc, window, gl, loc, trace, frames, obs>>

PollReturn ==
    /\ pc = "polling"
    /\ pc' = "swap"
    /\ events' = 0
    /\ UNCHANGED <<window, glfw, gl, loc, trace, frames, obs>>

(* glfwSwapBuffers(window): the back buffer is presented. *)
SwapBuffers ==
    /\ pc = "swap"
    /\ obs' = [obs EXCEPT !.numSwap = @ + 1]
    /\ gl' = [gl EXCEPT !.cleared = FALSE]
    /\ Call("glfwSwapBuffers")
    /\ pc' = "loop_head"
    /\ UNCHANGED <<window, glfw, loc, frames, events>>

(* glfwTerminate() after the loop. *)
Terminate ==
    /\ pc = "terminate"
    /\ glfw' = GlfwTerminated(glfw)
    /\ Call("glfwTerminate")
    /\ pc' = "return"
    /\ UNCHANGED <<window, gl, loc, frames, events, obs>>

(* return 0; *)
Return ==
    /\ pc = "return"
    /\ loc' = [loc EXCEPT !.exitCode = 0]
    /\ pc' = "done"
    /\ UNCHANGED <<window, glfw, gl, trace, frames, events, obs>>

----------------------------------------------------------------------------
InitWindow ==
    \/ GlfwInit \/ WindowHints \/ CreateWindow \/ CreateFailed
    \/ MakeContextCurrent \/ SetFramebufferSizeCallback
    \/ LoadGLOk \/ LoadGLFailed

Geometry ==
    \/ GenVertexArrays \/ BindVertexArray \/ GenBuffers \/ BindBuffer
    \/ BufferData \/ VertexAttribPointer \/ EnableVertexAttribArray

ProcessShaderProgram ==
    \/ CreateProgram \/ VertexShaderCreate \/ VertexShaderCompile
    \/ FragmentShaderCreate \/ FragmentShaderCompile
    \/ AttachVertexShader \/ AttachFragmentShader \/ LinkProgram
    \/ DeleteVertexShader \/ DeleteFragmentShader \/ ReturnProgram

Present ==
    \/ PollEvents \/ DispatchResize \/ DispatchClose \/ DispatchKey
    \/ PollReturn \/ SwapBuffers

Next ==
    \/ InitWindow
    \/ LoopHead \/ ProcessInput \/ ProcessInputNull \/ ClearColor \/ Clear
    \/ Geometry
    \/ ProcessShaderProgram
    \/ UseProgram \/ BindVertexArrayForDraw \/ DrawArrays
    \/ Present
    \/ Terminate \/ Return

Spec == Init /\ [][Next]_vars

(* The thread runs whenever it can: every call of the program returns. *)
FairSpec == Spec /\ WF_vars(Next)

----------------------------------------------------------------------------
(* Vocabulary of the properties. *)

(* Statements of the loop body of main, the callees included. *)
FramePCs ==
    {"input", "clear_color", "clear", "gen_vao", "bind_vao", "gen_vbo",
     "bind_vbo", "buffer_data", "attrib_ptr", "enable_attrib",
     "create_program", "vs_create", "vs_compile", "fs_create", "fs_compile",
     "attach_vs", "attach_fs", "link", "delete_vs", "delete_fs",
     "return_program", "use_program", "bind_vao_draw", "draw", "poll",
     "polling", "swap"}

Ended == pc \in {"done", "crashed"}

VertexDiag == "cout:ERROR::SHADER::VERTEX::COMPILATION_FAILED"

FragmentDiag == "cout:ERROR::SHADER::FRAGMENT::COMPILATION_FAILED"

LinkDiag == "cout:ERROR::SHADER::PROGRAM::LINKING_FAILED"

(* A compile or link failure was reported in the current frame. *)
FrameFailure == Issued(VertexDiag) \/ Issued(FragmentDiag) \/ Issued(LinkDiag)

(* The step is a run of framebuffer_size_callback. *)
CallbackRan == trace' = Append(trace, "glViewport")

----------------------------------------------------------------------------
(* C1: when window creation or the GL loader failed (initWindow returned   *)
(* null), main does not evaluate the loop condition on the absent window   *)
(* and enters no frame.                                                    *)
C1_InitFailureIsFatal ==
    window = "null" => ~Issued("glfwWindowShouldClose") /\ frames = 0

----------------------------------------------------------------------------
C2_FrameLeftThroughSwap ==
    pc \in FramePCs /\ pc' \notin FramePCs =>
       \/ pc = "swap" /\ pc' = "loop_head"
       \/ window = "null" /\ pc' = "crashed"

(* C2: each time the loop condition is evaluated again, the frame before   *)
(* it issued exactly one glDrawArrays of 3 vertices, one glfwPollEvents    *)
(* and one glfwSwapBuffers, also when the close flag was set during that   *)
(* frame; the loop is left for glfwTerminate only from the loop head, and  *)
(* a frame is left only through the swap (or by the fault of a frame       *)
(* entered on the null handle).                                            *)
C2_OneDrawSwapPerFrame ==
    /\ [](pc = "loop_head" /\ frames > 0 =>
            /\ Count("glDrawArrays", trace) = 1
            /\ Count("glfwPollEvents", trace) = 1
            /\ Count("glfwSwapBuffers", trace) = 1
            /\ obs.lastDrawCount = 3
            /\ obs.numDraw = frames
            /\ obs.numPoll = frames
            /\ obs.numSwap = frames)
    /\ [][pc' = "terminate" => pc = "loop_head"]_vars
    /\ [][C2_FrameLeftThroughSwap]_vars

(* A frame during which Escape set the close flag has completed. *)
C2_Witness ==
    /\ pc = "loop_head"
    /\ frames = 2
    /\ obs.escSeen
    /\ glfw.shouldClose
    /\ obs.numDraw = 2
    /\ obs.numSwap = 2

----------------------------------------------------------------------------
(* C3: the VAO, the VBO and the shader program are created once, before    *)
(* the first frame: nothing is generated or created inside the frame loop. *)
C3_ResourcesBuiltOnceBeforeLoop ==
    /\ Len(gl.vaos) <= 1
    /\ Len(gl.vbos) <= 1
    /\ Len(gl.programs) <= 1
    /\ frames > 0 =>
          /\ ~Issued("glGenVertexArrays")
          /\ ~Issued("glGenBuffers")
          /\ ~Issued("glBufferData")
          /\ ~Issued("glCreateProgram")
          /\ ~Issued("glCreateShader")

----------------------------------------------------------------------------
C4_OnlyTowardsExit ==
    obs.escSeen' /\ pc' \notin FramePCs =>
       pc' \in {"loop_head", "terminate", "return", "done"}

(* C4: once processInput has seen Escape pressed the close flag is set, no *)
(* further frame begins, and the process reaches the end of main: it has   *)
(* called glfwTerminate and returned 0.                                    *)
C4_EscapeQuitsWithinOneFrame ==
    /\ [](obs.escSeen => glfw.shouldClose)
    /\ [][obs.escSeen => frames' = frames]_vars
    /\ [][C4_OnlyTowardsExit]_vars
    /\ (obs.escSeen ~>
           (pc = "done" /\ loc.exitCode = 0 /\ trace[Len(trace)] = "glfwTerminate"))

(* Escape was seen and main has returned. *)
C4_Witness == obs.escSeen /\ pc = "done" /\ loc.exitCode = 0

----------------------------------------------------------------------------
C5_CallbackOnlySetsViewport ==
    CallbackRan =>
       /\ gl' = [gl EXCEPT !.viewport = gl'.viewport]
       /\ UNCHANGED <<pc, window, glfw, loc, frames>>

C5_OnlyCallbackSetsViewport ==
    gl'.viewport # gl.viewport => CallbackRan \/ pc = "check_window"

(* C5: after the resize callback ran for (w, h) the viewport is            *)
(* (0, 0, w, h) until the next run of the callback; the callback is        *)
(* registered before any frame of a created window; a run of the callback  *)
(* changes the viewport and nothing else, and never faults; nothing but    *)
(* the callback changes the viewport once the context is current.          *)
C5_ResizeSetsViewport ==
    /\ [](obs.lastResize # <<>> =>
             gl.viewport = <<0, 0, obs.lastResize[1], obs.lastResize[2]>>)
    /\ [](frames > 0 /\ glfw.windowExists => glfw.callbackSet)
    /\ [][C5_CallbackOnlySetsViewport]_vars
    /\ [][C5_OnlyCallbackSetsViewport]_vars

(* The frame after a resize to 400x300 begins with that viewport. *)
C5_Witness ==
    /\ pc = "input"
    /\ frames = 2
    /\ obs.lastResize = <<400, 300>>
    /\ gl.viewport = <<0, 0, 400, 300>>

----------------------------------------------------------------------------
(* C6: when processShaderProgram has returned, the vertex and the fragment *)
(* shader it created have each been deleted exactly once, link success or  *)
(* not; and a shader is deleted only when it is attached to a program that *)
(* has both shaders attached and whose link was attempted.                 *)
C6_ShadersDeletedAfterLinkAttempt ==
    /\ pc = "use_program" =>
          /\ loc.vertexShader \in 1..Len(gl.shaders)
          /\ loc.fragmentShader \in 1..Len(gl.shaders)
          /\ gl.shaders[loc.vertexShader].kind = "vertex"
          /\ gl.shaders[loc.fragmentShader].kind = "fragment"
          /\ gl.shaders[loc.vertexShader].deletes = 1
          /\ gl.shaders[loc.fragmentShader].deletes = 1
          /\ gl.shaders[loc.vertexShader].prog = loc.shaderProgram
          /\ gl.shaders[loc.fragmentShader].prog = loc.shaderProgram
          /\ gl.programs[loc.shaderProgram].link \in {"linked", "failed"}
    /\ \A s \in 1..Len(gl.shaders) :
          gl.shaders[s].deletes > 0 =>
             /\ gl.shaders[s].deletes = 1
             /\ gl.shaders[s].prog \in 1..Len(gl.programs)
             /\ s \in gl.programs[gl.shaders[s].prog].attached
             /\ Cardinality(gl.programs[gl.shaders[s].prog].attached) = 2
             /\ gl.programs[gl.shaders[s].prog].link # "unlinked"

(* processShaderProgram returned a program whose link failed. *)
C6_Witness ==
    /\ pc = "use_program"
    /\ gl.programs[loc.shaderProgram].link = "failed"
    /\ gl.shaders[loc.vertexShader].deletes = 1
    /\ gl.shaders[loc.fragmentShader].deletes = 1

----------------------------------------------------------------------------
(* C7: an execution that has ended has ended by main calling glfwTerminate *)
(* and returning, whatever failed before.                                  *)
C7_EveryEndTerminatesGlfw ==
    Ended => pc = "done" /\ trace[Len(trace)] = "glfwTerminate"

----------------------------------------------------------------------------
(* C8: when glfwInit failed, no window hint is set, no window creation is  *)
(* attempted and no frame is entered.                                      *)
C8_InitFailureAbortsStartup ==
    glfw.initFailed =>
       /\ ~Issued("glfwWindowHint")
       /\ ~Issued("glfwCreateWindow")
       /\ frames = 0

----------------------------------------------------------------------------
C9_FailureKeepsFrameRunning ==
    FrameFailure /\ pc \in FramePCs => pc' \in FramePCs \cup {"loop_head"}

(* C9: a compile or link failure does not stop the frame.  The compile     *)
(* function returns the handle of the shader it created; after             *)
(* processShaderProgram returned, both shaders are attached to the program *)
(* it returned and the link was attempted; the frame issues glUseProgram   *)
(* and one draw; and no step taken after a reported failure leaves the     *)
(* loop other than through the loop head.                                  *)
C9_ShaderFailuresAreNonFatal ==
    /\ [](pc \in FramePCs /\ Issued(VertexDiag) =>
             /\ loc.vertexShader \in 1..Len(gl.shaders)
             /\ gl.shaders[loc.vertexShader].kind = "vertex"
             /\ gl.shaders[loc.vertexShader].compile = "failed")
    /\ [](pc \in FramePCs /\ Issued(FragmentDiag) =>
             /\ loc.fragmentShader \in 1..Len(gl.shaders)
             /\ gl.shaders[loc.fragmentShader].kind = "fragment"
             /\ gl.shaders[loc.fragmentShader].compile = "failed")
    /\ [](pc = "use_program" /\ FrameFailure =>
             /\ loc.shaderProgram = Len(gl.programs)
             /\ gl.programs[loc.shaderProgram].attached =
                   {loc.vertexShader, loc.fragmentShader}
             /\ gl.programs[loc.shaderProgram].link # "unlinked")
    /\ [](pc \in {"poll", "polling", "swap"} /\ FrameFailure =>
             /\ Count("glUseProgram", trace) = 1
             /\ Count("glDrawArrays", trace) = 1)
    /\ [][C9_FailureKeepsFrameRunning]_vars

(* A second frame runs after a frame whose vertex compile and link failed. *)
C9_Witness ==
    /\ frames = 2
    /\ pc = "draw"
    /\ gl.shaders[1].compile = "failed"
    /\ gl.programs[1].link = "failed"
    /\ obs.numDraw = 1

----------------------------------------------------------------------------
(* C10: every execution that has ended has exit code 0. *)
C10_ExitCodeAlwaysZero ==
    Ended => loc.exitCode = 0

----------------------------------------------------------------------------
(* Output lines.  The code writes every diagnostic with std::cout. *)

CreateDiag == "cout:Failed to create GLFW window"

GladDiag == "cout:Failed to initialize GLAD"

(* The five diagnostics as the code writes them, on standard output. *)
CoutDiags == {CreateDiag, GladDiag, VertexDiag, FragmentDiag, LinkDiag}

(* The same five lines had they been written with std::cerr. *)
CerrDiags ==
    {"cerr:Failed to create GLFW window", "cerr:Failed to initialize GLAD",
     "cerr:ERROR::SHADER::VERTEX::COMPILATION_FAILED",
     "cerr:ERROR::SHADER::FRAGMENT::COMPILATION_FAILED",
     "cerr:ERROR::SHADER::PROGRAM::LINKING_FAILED"}

(* What the step appends to the trace (the whole trace when a frame begins). *)
NewEntries ==
    IF Len(trace') >= Len(trace) /\ SubSeq(trace', 1, Len(trace)) = trace
    THEN SubSeq(trace', Len(trace) + 1, Len(trace'))
    ELSE trace'

Emitted(line) == Count(line, NewEntries) > 0

(* The step emits each diagnostic exactly when its own failure occurs in it. *)
C11_EmittedOnOwnFailure ==
    /\ Emitted(CreateDiag) <=> (pc = "check_window" /\ ~glfw.windowExists)
    /\ Emitted(GladDiag) <=> (pc = "load_gl" /\ ~glfw'.gladLoaded)
    /\ Emitted(VertexDiag) <=>
          (pc = "vs_compile" /\ gl'.shaders[loc.shader].compile = "failed")
    /\ Emitted(FragmentDiag) <=>
          (pc = "fs_compile" /\ gl'.shaders[loc.shader].compile = "failed")
    /\ Emitted(LinkDiag) <=>
          (pc = "link" /\ gl'.programs[loc.newProgram].link = "failed")
    /\ \A line \in CoutDiags : Count(line, NewEntries) <= 1
    /\ \A line \in CerrDiags : ~Emitted(line)

----------------------------------------------------------------------------
(* The last n entries of the trace. *)
LastCalls(n) ==
    IF Len(trace) >= n THEN SubSeq(trace, Len(trace) - n + 1, Len(trace)) ELSE <<>>

(* The calls of the geometry upload, in the order of the source. *)
GeometryCalls ==
    <<"glGenVertexArrays", "glBindVertexArray", "glGenBuffers", "glBindBuffer",
      "glBufferData", "glVertexAttribPointer", "glEnableVertexAttribArray">>

(* C12: when glVertexAttribPointer and glEnableVertexAttribArray run, the  *)
(* bound VAO is the one generated in this frame, the array-buffer binding  *)
(* is the VBO generated in this frame, and that VBO already holds the 36   *)
(* bytes; the calls were issued in the order gen VAO, bind VAO, gen VBO,   *)
(* bind VBO, upload, declare attribute 0, enable attribute 0, and after    *)
(* them attribute 0 of the VAO records that VBO, 3 floats, stride 12,      *)
(* offset 0, enabled.                                                      *)
C12_AttribConfiguredOnBoundObjects ==
    /\ pc \in {"attrib_ptr", "enable_attrib"} =>
          /\ loc.VAO = Len(gl.vaos)
          /\ loc.VAO = frames
          /\ gl.boundVAO = loc.VAO
          /\ loc.VBO = Len(gl.vbos)
          /\ loc.VBO = frames
          /\ gl.boundVBO = loc.VBO
          /\ gl.vbos[gl.boundVBO] = 36
    /\ pc = "attrib_ptr" => LastCalls(5) = SubSeq(GeometryCalls, 1, 5)
    /\ pc = "enable_attrib" => LastCalls(6) = SubSeq(GeometryCalls, 1, 6)
    /\ pc = "create_program" =>
          /\ LastCalls(7) = GeometryCalls
          /\ gl.vaos[loc.VAO] =
                [vbo |-> loc.VBO, size |-> 3, stride |-> 12, offset |-> 0,
                 enabled |-> TRUE]

(* Attribute 0 of the second frame's VAO is about to be enabled. *)
C12_Witness ==
    /\ pc = "enable_attrib"
    /\ frames = 2
    /\ gl.boundVAO = 2
    /\ gl.boundVBO = 2
    /\ gl.vaos[2].vbo = 2
    /\ gl.vbos[2] = 36

----------------------------------------------------------------------------
(* Position in the frame's trace of a call that occurs once in it. *)
Pos(name) == CHOOSE i \in 1..Len(trace) : trace[i] = name

(* The program that linked last, 0 when none has. *)
LastLinked(g) ==
    LET linked == {p \in 1..Len(g.programs) : g.programs[p].link = "linked"}
    IN  IF linked = {} THEN 0
        ELSE CHOOSE p \in linked : \A q \in linked : q <= p

(* The calls of a frame up to the draw are in the order of section 4.4. *)
C13_OrderBeforeDraw ==
    /\ trace[2] = "glfwGetKey"
    /\ Count("glClear", trace) = 1
    /\ Count("glUseProgram", trace) = 1
    /\ 2 < Pos("glClear")
    /\ Pos("glClear") < Pos("glUseProgram")
    /\ LastCalls(2) = <<"glUseProgram", "glBindVertexArray">>
    /\ gl.cleared

(* C13 as stated: at the draw the active program is the one activated in   *)
(* this frame and the bound VAO is the one bound in this frame.            *)
C13_DrawUsesThisFramesProgram ==
    pc = "draw" =>
       /\ C13_OrderBeforeDraw
       /\ gl.boundVAO = loc.VAO
       /\ gl.currentProgram = loc.shaderProgram

(* C13, amended: within every frame the calls occur in the order           *)
(* processInput, glClear, glUseProgram, glBindVertexArray, glDrawArrays,   *)
(* glfwPollEvents, glfwSwapBuffers; at the draw the bound VAO is the one   *)
(* generated and bound in that frame; the active program is the one built  *)
(* in that frame when its link succeeded, and otherwise (glUseProgram      *)
(* rejects a program that is not linked) the last program that linked in   *)
(* an earlier frame, or none.                                              *)
C13_FrameOrderAndDrawState ==
    /\ pc = "draw" =>
          /\ C13_OrderBeforeDraw
          /\ loc.VAO = frames
          /\ gl.boundVAO = loc.VAO
          /\ loc.shaderProgram = frames
          /\ gl.currentProgram = LastLinked(gl)
          /\ gl.programs[loc.shaderProgram].link = "linked" =>
                gl.currentProgram = loc.shaderProgram
          /\ gl.programs[loc.shaderProgram].link = "failed" =>
                gl.currentProgram < loc.shaderProgram
    /\ pc = "loop_head" /\ frames > 0 =>
          /\ trace[2] = "glfwGetKey"
          /\ Pos("glClear") < Pos("glDrawArrays")
          /\ Pos("glUseProgram") + 2 = Pos("glDrawArrays")
          /\ Pos("glDrawArrays") + 1 = Pos("glfwPollEvents")
          /\ Pos("glfwPollEvents") < Pos("glfwSwapBuffers")
          /\ Pos("glfwSwapBuffers") = Len(trace)

(* The second frame draws with the first frame's program active, because   *)
(* its own program failed to link.                                         *)
C13_Witness ==
    /\ pc = "draw"
    /\ frames = 2
    /\ gl.programs[2].link = "failed"
    /\ gl.currentProgram = 1
    /\ gl.boundVAO = 2

----------------------------------------------------------------------------
(* C14 as stated: a shader on which glDeleteShader was called belongs to a  *)
(* program whose link succeeded.                                           *)
C14_DeletedOnlyAfterSuccessfulLink ==
    \A s \in 1..Len(gl.shaders) :
       gl.shaders[s].deletes > 0 =>
          /\ gl.shaders[s].prog \in 1..Len(gl.programs)
          /\ gl.programs[gl.shaders[s].prog].link = "linked"

(* C14, amended: a shader object is deleted only after the link of its     *)
(* program was attempted, whether that link succeeded or failed: every     *)
(* glDeleteShader of a frame follows that frame's glLinkProgram, and the    *)
(* program of a deleted shader has link status success or failure.         *)
C14_DeletedOnlyAfterLinkAttempt ==
    /\ \A i \in 1..Len(trace) :
          trace[i] = "glDeleteShader" =>
             \E j \in 1..(i - 1) : trace[j] = "glLinkProgram"
    /\ \A s \in 1..Len(gl.shaders) :
          gl.shaders[s].deletes > 0 =>
             /\ gl.shaders[s].prog \in 1..Len(gl.programs)
             /\ gl.programs[gl.shaders[s].prog].link \in {"linked", "failed"}

(* The vertex shader has been deleted although the link failed. *)
C14_Witness ==
    /\ pc = "delete_fs"
    /\ gl.shaders[loc.vertexShader].deletes = 1
    /\ gl.shaders[loc.fragmentShader].deletes = 0
    /\ gl.programs[loc.newProgram].link = "failed"

----------------------------------------------------------------------------
(* The state of shader s in the per-shader state machine of section 4.2:   *)
(* 1 created, 2 compiled or compile-failed, 3 attached, 4 consumable (the  *)
(* link of its program was attempted), 5 released; 0 when it is in none.   *)
ShaderRank(g, s) ==
    LET sh == g.shaders[s]
        attached == sh.prog \in 1..Len(g.programs)
                       /\ s \in g.programs[sh.prog].attached
        linkTried == attached /\ g.programs[sh.prog].link # "unlinked"
    IN  IF sh.deletes = 0 /\ sh.prog = 0 /\ sh.compile = "none" THEN 1
        ELSE IF sh.deletes = 0 /\ sh.prog = 0 /\ sh.compile # "none" THEN 2
        ELSE IF sh.deletes = 0 /\ attached /\ ~linkTried /\ sh.compile # "none"
             THEN 3
        ELSE IF sh.deletes = 0 /\ linkTried /\ sh.compile # "none" THEN 4
        ELSE IF sh.deletes = 1 /\ linkTried /\ sh.compile # "none" THEN 5
        ELSE 0

(* A step moves each shader at most one state forward, changes a shader    *)
(* only by moving it, never touches a released shader, and a new shader    *)
(* starts as created.                                                      *)
C15_ShaderStep ==
    /\ Len(gl'.shaders) >= Len(gl.shaders)
    /\ \A s \in 1..Len(gl'.shaders) :
          IF s <= Len(gl.shaders)
          THEN /\ ShaderRank(gl', s) \in {ShaderRank(gl, s), ShaderRank(gl, s) + 1}
               /\ ShaderRank(gl', s) = ShaderRank(gl, s) =>
                     gl'.shaders[s] = gl.shaders[s]
               /\ gl'.shaders[s].kind = gl.shaders[s].kind
               /\ ShaderRank(gl, s) = 5 => gl'.shaders[s] = gl.shaders[s]
          ELSE ShaderRank(gl', s) = 1

(* C15: every shader is always in one of the five states of the state      *)
(* machine and moves through them one step at a time, in order: it is      *)
(* attached only after its compile was attempted, deleted only after the   *)
(* link attempt, and not touched after release; each frame issues each of  *)
(* create, compile, attach and delete exactly twice (once per shader), and *)
(* the shaders of earlier frames are all released.                         *)
C15_ShaderStateMachine ==
    /\ [](\A s \in 1..Len(gl.shaders) : ShaderRank(gl, s) >= 1)
    /\ [][C15_ShaderStep]_vars
    /\ [](pc = "use_program" =>
             /\ Count("glCreateShader", trace) = 2
             /\ Count("glCompileShader", trace) = 2
             /\ Count("glAttachShader", trace) = 2
             /\ Count("glLinkProgram", trace) = 1
             /\ Count("glDeleteShader", trace) = 2
             /\ Len(gl.shaders) = 2 * frames
             /\ \A s \in 1..Len(gl.shaders) : ShaderRank(gl, s) = 5)

(* In the second frame: a released shader whose compile had failed, the    *)
(* new vertex shader attached, the new fragment shader compiled.           *)
C15_Witness ==
    /\ pc = "attach_fs"
    /\ Len(gl.shaders) = 4
    /\ ShaderRank(gl, 1) = 5
    /\ gl.shaders[1].compile = "failed"
    /\ ShaderRank(gl, 3) = 3
    /\ ShaderRank(gl, 4) = 2

----------------------------------------------------------------------------
(* The GL entry points the program calls. *)
GLCalls ==
    {"glClearColor", "glClear", "glGenVertexArrays", "glBindVertexArray",
     "glGenBuffers", "glBindBuffer", "glBufferData", "glVertexAttribPointer",
     "glEnableVertexAttribArray", "glCreateProgram", "glCreateShader",
     "glShaderSource", "glCompileShader", "glGetShaderiv", "glGetShaderInfoLog",
     "glAttachShader", "glLinkProgram", "glGetProgramiv", "glGetProgramInfoLog",
     "glDeleteShader", "glUseProgram", "glDrawArrays", "glViewport"}

(* C16: whenever the call just issued is a GL call, a rendering context is *)
(* current, the GL entry points have been loaded and glfwTerminate has not *)
(* been called.                                                            *)
C16_GLCallsNeedLiveContext ==
    Len(trace) > 0 /\ trace[Len(trace)] \in GLCalls =>
       /\ glfw.contextCurrent
       /\ glfw.gladLoaded
       /\ glfw.terminateCalls = 0

----------------------------------------------------------------------------
(* The calls of initWindow up to the creation of the window. *)
StartupCalls ==
    <<"glfwInit", "glfwWindowHint", "glfwWindowHint", "glfwWindowHint",
      "glfwCreateWindow">>

(* ... then with a window, up to the loader. *)
ContextCalls ==
    StartupCalls \o <<"glfwMakeContextCurrent", "glfwSetFramebufferSizeCallback",
                      "gladLoadGLLoader">>

(* initWindow has just returned to main. *)
InitWindowReturned == pc = "loop_head" /\ frames = 0

(* C17: when initWindow has returned, either it returned the window after  *)
(* creating it, making its context current, registering the callback and   *)
(* a successful loader call, in that order and with nothing logged; or the *)
(* creation failed and it logged, called glfwTerminate once and returned   *)
(* null with no context made current, no callback registered and no loader *)
(* call; or the loader failed and it logged and returned null, the window  *)
(* and the library left as they were.                                      *)
C17_InitWindowResult ==
    InitWindowReturned =>
       \/ /\ window = "w"
          /\ trace = ContextCalls
          /\ glfw.windowExists
          /\ glfw.contextCurrent
          /\ glfw.callbackSet
          /\ glfw.gladLoaded
          /\ glfw.terminateCalls = 0
       \/ /\ window = "null"
          /\ trace = StartupCalls \o <<CreateDiag, "glfwTerminate">>
          /\ ~glfw.windowExists
          /\ ~glfw.contextCurrent
          /\ ~glfw.callbackSet
          /\ ~glfw.gladLoaded
          /\ glfw.terminateCalls = 1
       \/ /\ window = "null"
          /\ trace = ContextCalls \o <<GladDiag>>
          /\ glfw.windowExists
          /\ glfw.contextCurrent
          /\ glfw.callbackSet
          /\ ~glfw.gladLoaded
          /\ glfw.terminateCalls = 0

(* glfwInit succeeded, the window could not be created: null is returned   *)
(* after one glfwTerminate.                                                *)
C17_Witness ==
    /\ InitWindowReturned
    /\ window = "null"
    /\ ~glfw.initFailed
    /\ glfw.terminateCalls = 1
    /\ ~glfw.contextCurrent

----------------------------------------------------------------------------
(* The calls that would release a program, a VAO or a VBO. *)
ReleaseCalls == {"glDeleteProgram", "glDeleteVertexArrays", "glDeleteBuffers"}

(* A step releases no program, VAO or VBO: none of the release calls is    *)
(* issued and every existing name stays.                                   *)
C18_NothingReleased ==
    /\ \A name \in ReleaseCalls : ~Emitted(name)
    /\ Len(gl'.programs) >= Len(gl.programs)
    /\ Len(gl'.vaos) >= Len(gl.vaos)
    /\ Len(gl'.vbos) >= Len(gl.vbos)

(* C18: no step releases a program, a VAO or a VBO; at every loop head and *)
(* when glfwTerminate is about to be called, the programs, the VAOs and    *)
(* the VBOs created so far are exactly as many as the frames that have     *)
(* run, one of each per frame, all of them still existing.                 *)
C18_HandlesGrowPerFrame ==
    /\ [][C18_NothingReleased]_vars
    /\ [](pc \in {"loop_head", "terminate"} =>
             /\ Len(gl.programs) = frames
             /\ Len(gl.vaos) = frames
             /\ Len(gl.vbos) = frames)
    /\ [](pc \in FramePCs =>
             /\ Len(gl.programs) \in {frames - 1, frames}
             /\ Len(gl.vaos) \in {frames - 1, frames}
             /\ Len(gl.vbos) \in {frames - 1, frames})

(* glfwTerminate is about to be called after two frames: two programs, two *)
(* VAOs and two VBOs exist.                                                *)
C18_Witness ==
    /\ pc = "terminate"
    /\ frames = 2
    /\ Len(gl.programs) = 2
    /\ Len(gl.vaos) = 2
    /\ Len(gl.vbos) = 2

====
